---------------------------- MODULE Spec2Model ----------------------------
(***************************************************************************)
(* Model of the image resizer: the option validator and the dimension      *)
(* planner of src/src/image-processor.js and the POST /resize handler of   *)
(* src/src/server.js.                                                      *)
(*                                                                         *)
(* JavaScript values are records [t, n, d, s]: t is the kind ("undefined", *)
(* "number", "nan", "string"), n/d the value of a number as a fraction in  *)
(* lowest terms with d > 0, s the text of a string.  Arithmetic on numbers *)
(* is exact rational arithmetic; for operands up to 17 it gives the same   *)
(* Math.round results as IEEE doubles (the first disagreement is           *)
(* 9 / (18/7), a tie that the double quotient misses).                     *)
(***************************************************************************)
EXTENDS Integers, Sequences, FiniteSets, TLC

\* ------------------------------------------------------------------------
\* Bounds of the model
\* ------------------------------------------------------------------------
MaxSrc == 3      \* source images have 1..MaxSrc pixels per side
MaxDim == 3      \* requested width / height are 1..MaxDim
MaxNum == 3      \* numerators of the scale / aspectRatio values
MaxDen == 3      \* denominators of the scale / aspectRatio values
NumRequests == 2 \* /resize requests the server receives
MaxPixels == 4   \* decoded images handed to a resampler have 1..MaxPixels pixels
MaxTarget == 3   \* resamplers are asked for 1..MaxTarget pixels per side

\* ------------------------------------------------------------------------
\* JavaScript values
\* ------------------------------------------------------------------------
Abs(x) == IF x < 0 THEN -x ELSE x

RECURSIVE GCD(_, _)
GCD(a, b) == IF b = 0 THEN a ELSE GCD(b, a % b)

Undef == [t |-> "undefined", n |-> 0, d |-> 1, s |-> ""]
NaN == [t |-> "nan", n |-> 0, d |-> 1, s |-> ""]
Str(x) == [t |-> "string", n |-> 0, d |-> 1, s |-> x]

\* the number n/d (d # 0), in lowest terms with a positive denominator
Rat(n, d) ==
    LET sn == IF d < 0 THEN -n ELSE n
        sd == Abs(d)
        g == GCD(Abs(sn), sd)
    IN [t |-> "number", n |-> sn \div g, d |-> sd \div g, s |-> ""]

Int2Num(i) == Rat(i, 1)

\* typeof v
TypeOf(v) == IF v.t = "nan" THEN "number" ELSE v.t

\* ToBoolean(v): undefined, NaN, 0 and '' are falsy
Truthy(v) ==
    CASE v.t = "number" -> v.n # 0
      [] v.t = "string" -> v.s # ""
      [] OTHER -> FALSE

\* a <= 0, a < 0, a > b on numbers; every comparison with NaN is false
LeZero(v) == v.t = "number" /\ v.n <= 0
LtZero(v) == v.t = "number" /\ v.n < 0
Gt(a, b) == a.t = "number" /\ b.t = "number" /\ a.n * b.d > b.n * a.d

Mul(a, b) == Rat(a.n * b.n, a.d * b.d)
Div(a, b) == Rat(a.n * b.d, a.d * b.n)

\* Math.round: the integer nearest to a, ties towards +infinity
MathRound(a) == Int2Num((2 * a.n + a.d) \div (2 * a.d))

Range(q) == {q[i] : i \in 1..Len(q)}

\* ------------------------------------------------------------------------
\* ImageProcessor: the algorithm registry
\* ------------------------------------------------------------------------
AlgorithmNames == <<"nearest", "bilinear", "bicubic", "lanczos">>

\* properties every object literal inherits from Object.prototype
ObjectPrototypeKeys == {"toString", "constructor", "valueOf", "hasOwnProperty"}

\* this.algorithms[name]: the bound resampler, an inherited member of
\* Object.prototype, or undefined
algorithms(name) ==
    IF name.t = "string" /\ name.s \in Range(AlgorithmNames) THEN Str(name.s)
    ELSE IF name.t = "string" /\ name.s \in ObjectPrototypeKeys THEN Str("[inherited]")
    ELSE Undef

FitModes == {"cover", "contain", "fill"}

\* ------------------------------------------------------------------------
\* validateOptions
\* ------------------------------------------------------------------------
PositiveNumberMessage(field) ==
    CASE field = "width" -> "width must be a positive number"
      [] field = "height" -> "height must be a positive number"
      [] field = "scale" -> "scale must be a positive number"
      [] field = "aspectRatio" -> "aspectRatio must be a positive number"

FitMessage == "fit must be one of: cover, contain, fill"
AlgorithmMessage == "algorithm must be one of: nearest, bilinear, bicubic, lanczos"
QualityMessage == "quality must be a number between 0 and 1"

\* options.f !== undefined && (typeof options.f !== 'number' || options.f <= 0)
NotPositiveCheck(v) == v # Undef /\ (TypeOf(v) # "number" \/ LeZero(v))

\* options.fit && !['cover', 'contain', 'fill'].includes(options.fit)
FitCheck(v) == Truthy(v) /\ ~(v.t = "string" /\ v.s \in FitModes)

\* options.algorithm && !this.algorithms[options.algorithm]
AlgorithmCheck(v) == Truthy(v) /\ ~Truthy(algorithms(v))

\* options.quality !== undefined && (typeof ... !== 'number' || q < 0 || q > 1)
QualityCheck(v) ==
    v # Undef /\ (TypeOf(v) # "number" \/ LtZero(v) \/ Gt(v, Int2Num(1)))

Push(errs, cond, msg) == IF cond THEN Append(errs, msg) ELSE errs

validateOptions(o) ==
    LET e1 == Push(<<>>, NotPositiveCheck(o.width), PositiveNumberMessage("width"))
        e2 == Push(e1, NotPositiveCheck(o.height), PositiveNumberMessage("height"))
        e3 == Push(e2, NotPositiveCheck(o.scale), PositiveNumberMessage("scale"))
        e4 == Push(e3, NotPositiveCheck(o.aspectRatio), PositiveNumberMessage("aspectRatio"))
        e5 == Push(e4, FitCheck(o.fit), FitMessage)
        e6 == Push(e5, AlgorithmCheck(o.algorithm), AlgorithmMessage)
        e7 == Push(e6, QualityCheck(o.quality), QualityMessage)
    IN e7

\* ------------------------------------------------------------------------
\* calculateDimensions
\* ------------------------------------------------------------------------
\* if (scale) { targetWidth = Math.round(srcWidth * scale); ... }
ScaleStep(src, requested, scale) ==
    IF Truthy(scale) THEN MathRound(Mul(Int2Num(src), scale)) ELSE requested

\* the aspectRatio branch: derive the missing one of the two targets
AspectStep(tw, th, aspectRatio) ==
    IF Truthy(aspectRatio) /\ Truthy(tw) /\ ~Truthy(th)
    THEN [width |-> tw, height |-> MathRound(Div(tw, aspectRatio))]
    ELSE IF Truthy(aspectRatio) /\ Truthy(th) /\ ~Truthy(tw)
    THEN [width |-> MathRound(Mul(th, aspectRatio)), height |-> th]
    ELSE [width |-> tw, height |-> th]

\* variant that leaves an unset target unset
DefaultStepSkipped(target, src) == target

\* if (!targetWidth) targetWidth = srcWidth
DefaultStep(target, src) == IF ~Truthy(target) THEN Int2Num(src) ELSE target

\* variant that consults the fit policy as soon as one dimension is given
hasBothDimensionsEither(o) == Truthy(o.width) \/ Truthy(o.height)

\* const hasBothDimensions = width && height
hasBothDimensions(o) == Truthy(o.width) /\ Truthy(o.height)

\* variant with the comparison of the two aspect ratios reversed
fitCoverReversed(srcWidth, srcHeight, targetWidth, targetHeight) ==
    LET srcAspect == Rat(srcWidth, srcHeight)
        targetAspect == Div(targetWidth, targetHeight)
    IN IF Gt(targetAspect, srcAspect)
       THEN [width |-> MathRound(Mul(targetHeight, srcAspect)), height |-> targetHeight]
       ELSE [width |-> targetWidth, height |-> MathRound(Div(targetWidth, srcAspect))]

fitCover(srcWidth, srcHeight, targetWidth, targetHeight) ==
    LET srcAspect == Rat(srcWidth, srcHeight)
        targetAspect == Div(targetWidth, targetHeight)
    IN IF Gt(srcAspect, targetAspect)
       THEN [width |-> MathRound(Mul(targetHeight, srcAspect)), height |-> targetHeight]
       ELSE [width |-> targetWidth, height |-> MathRound(Div(targetWidth, srcAspect))]

\* variant with the comparison of the two aspect ratios reversed
fitContainReversed(srcWidth, srcHeight, targetWidth, targetHeight) ==
    LET srcAspect == Rat(srcWidth, srcHeight)
        targetAspect == Div(targetWidth, targetHeight)
    IN IF Gt(targetAspect, srcAspect)
       THEN [width |-> targetWidth, height |-> MathRound(Div(targetWidth, srcAspect))]
       ELSE [width |-> MathRound(Mul(targetHeight, srcAspect)), height |-> targetHeight]

\* variant that derives the second dimension from the box's aspect ratio
fitContainBoxAspect(srcWidth, srcHeight, targetWidth, targetHeight) ==
    LET srcAspect == Rat(srcWidth, srcHeight)
        targetAspect == Div(targetWidth, targetHeight)
    IN IF Gt(srcAspect, targetAspect)
       THEN [width |-> targetWidth, height |-> MathRound(Div(targetWidth, targetAspect))]
       ELSE [width |-> MathRound(Mul(targetHeight, targetAspect)), height |-> targetHeight]

fitContain(srcWidth, srcHeight, targetWidth, targetHeight) ==
    LET srcAspect == Rat(srcWidth, srcHeight)
        targetAspect == Div(targetWidth, targetHeight)
    IN IF Gt(srcAspect, targetAspect)
       THEN [width |-> targetWidth, height |-> MathRound(Div(targetWidth, srcAspect))]
       ELSE [width |-> MathRound(Mul(targetHeight, srcAspect)), height |-> targetHeight]

\* the values of targetWidth / targetHeight when the fit policy is consulted
NominalDimensions(srcWidth, srcHeight, o) ==
    LET a == AspectStep(ScaleStep(srcWidth, o.width, o.scale),
                        ScaleStep(srcHeight, o.height, o.scale), o.aspectRatio)
    IN [width |-> DefaultStep(a.width, srcWidth),
        height |-> DefaultStep(a.height, srcHeight)]

calculateDimensions(srcWidth, srcHeight, o) ==
    LET t == NominalDimensions(srcWidth, srcHeight, o)
    IN IF hasBothDimensions(o) /\ o.fit = Str("cover")
       THEN fitCover(srcWidth, srcHeight, t.width, t.height)
       ELSE IF hasBothDimensions(o) /\ o.fit = Str("contain")
       THEN fitContain(srcWidth, srcHeight, t.width, t.height)
       ELSE t

\* ------------------------------------------------------------------------
\* State
\* ------------------------------------------------------------------------
VARIABLES
    options,      \* the options record handed to the ImageProcessor method
    srcWidth,     \* width of the decoded source image
    srcHeight,    \* height of the decoded source image
    call,         \* the ImageProcessor method that has returned, or "none"
    errors,       \* the list validateOptions returned
    dimensions,   \* the record calculateDimensions returned
    req,          \* per request: the upload, the url and the query parameters
    pc,           \* per request: where its handler is suspended
    files,        \* the files in the temporary directory, [path, data]
    imagePath,    \* per request: the handler's imagePath
    imageBuffer,  \* per request: what fs.readFile resolved with
    result,       \* per request: what processImage resolved with
    responses,    \* per request: the responses sent, in order
    effects,      \* per request: the side effects its handler has had
    image,        \* the decoded image handed to resizeImage: width, height, bytes
    heap,         \* the byte buffers that exist; a buffer's identity is its index
    sourceData,   \* the sourceData argument: width, height, data (a buffer)
    targetWidth,  \* the targetWidth argument
    targetHeight, \* the targetHeight argument
    algorithm,    \* the algorithm argument
    resized,      \* what resizeImage returned: width, height, data (a buffer)
    writes,       \* the assignments targetData[index] = value it made
    thrown        \* the message of the error resizeImage threw, or ""

coreVars == <<options, srcWidth, srcHeight, call, errors, dimensions>>
serverVars == <<req, pc, files, imagePath, imageBuffer, result, responses, effects>>
resampleVars == <<image, heap, sourceData, targetWidth, targetHeight,
                  algorithm, resized, writes, thrown>>
vars == <<options, srcWidth, srcHeight, call, errors, dimensions,
          req, pc, files, imagePath, imageBuffer, result, responses, effects,
          image, heap, sourceData, targetWidth, targetHeight,
          algorithm, resized, writes, thrown>>

NoDimensions == [width |-> Undef, height |-> Undef]

MakeOptions(w, h, sc, ar, f, alg, q) ==
    [width |-> w, height |-> h, scale |-> sc, aspectRatio |-> ar,
     fit |-> f, algorithm |-> alg, quality |-> q]


\* ------------------------------------------------------------------------
\* server.js: requests, query parsing, the temporary directory
\* ------------------------------------------------------------------------
Requests == 1..NumRequests

\* uploaded or downloaded bytes: a PNG of the given size, or not a PNG
NoData == [kind |-> "none", width |-> 0, height |-> 0]
PngData(w, h) == [kind |-> "png", width |-> w, height |-> h]
GarbageData == [kind |-> "garbage", width |-> 0, height |-> 0]

\* query values are texts: sequences of characters for the numeric
\* parameters (<<>> when the parameter is absent or empty), strings for
\* fit, algorithm and url ("" when absent or empty)
Digits == <<"0", "1", "2", "3", "4", "5", "6", "7", "8", "9">>
IsDigit(c) == c \in Range(Digits)
DigitValue(c) == (CHOOSE i \in 1..10 : Digits[i] = c) - 1

RECURSIVE Pow10(_)
Pow10(k) == IF k = 0 THEN 1 ELSE 10 * Pow10(k - 1)

\* number of leading blanks of text from position i on
RECURSIVE Blanks(_, _)
Blanks(text, i) ==
    IF i <= Len(text) /\ text[i] = " " THEN 1 + Blanks(text, i + 1) ELSE 0

\* number of consecutive digits of text from position i on
RECURSIVE DigitRun(_, _)
DigitRun(text, i) ==
    IF i <= Len(text) /\ IsDigit(text[i]) THEN 1 + DigitRun(text, i + 1) ELSE 0

\* value of the k digits of text that start at position i
RECURSIVE DigitsValue(_, _, _)
DigitsValue(text, i, k) ==
    IF k = 0 THEN 0
    ELSE 10 * DigitsValue(text, i, k - 1) + DigitValue(text[i + k - 1])

SignAt(text, i) ==
    IF i <= Len(text) /\ text[i] \in {"-", "+"} THEN 1 ELSE 0
SignOf(text, i) == IF i <= Len(text) /\ text[i] = "-" THEN -1 ELSE 1

\* parseInt(text, 10): blanks, a sign, then the longest run of digits; NaN
\* when there is no digit
parseInt(text) ==
    LET b == 1 + Blanks(text, 1)
        i == b + SignAt(text, b)
        k == DigitRun(text, i)
    IN IF k = 0 THEN NaN ELSE Int2Num(SignOf(text, b) * DigitsValue(text, i, k))

\* parseFloat(text): blanks, a sign, digits, optionally a point and digits;
\* NaN when there is no digit (exponents and Infinity do not occur in the
\* texts of the model)
parseFloat(text) ==
    LET b == 1 + Blanks(text, 1)
        i == b + SignAt(text, b)
        k == DigitRun(text, i)
        point == i + k <= Len(text) /\ text[i + k] = "."
        f == IF point THEN DigitRun(text, i + k + 1) ELSE 0
    IN IF k = 0 /\ f = 0 THEN NaN
       ELSE Rat(SignOf(text, b)
                  * (DigitsValue(text, i, k) * Pow10(f)
                     + DigitsValue(text, i + k + 1, f)),
                Pow10(f))

parseResizeOptions(query) ==
    MakeOptions(
        IF query.width # <<>> THEN parseInt(query.width) ELSE Undef,
        IF query.height # <<>> THEN parseInt(query.height) ELSE Undef,
        IF query.scale # <<>> THEN parseFloat(query.scale) ELSE Undef,
        IF query.aspectRatio # <<>> THEN parseFloat(query.aspectRatio) ELSE Undef,
        IF query.fit # "" THEN Str(query.fit) ELSE Undef,
        IF query.algorithm # "" THEN Str(query.algorithm) ELSE Undef,
        IF query.quality # <<>> THEN parseFloat(query.quality) ELSE Undef)

MakeQuery(w, h, sc, ar, f, alg, q) ==
    [width |-> w, height |-> h, scale |-> sc, aspectRatio |-> ar,
     fit |-> f, algorithm |-> alg, quality |-> q]

NoRequest == [file |-> NoData, url |-> "", query |-> MakeQuery(<<>>, <<>>, <<>>, <<>>, "", "", <<>>)]

\* the requests of the model: what is uploaded or named by url ...
ServerSources ==
    {[file |-> PngData(2, 1), url |-> ""],
     [file |-> GarbageData, url |-> ""],
     [file |-> NoData, url |-> "http://host/image.png"],
     [file |-> NoData, url |-> ""]}

\* ... and the query strings
ServerQueries ==
    {MakeQuery(<<>>, <<>>, <<>>, <<>>, "", "", <<>>),
     MakeQuery(<<"2">>, <<>>, <<>>, <<>>, "", "bilinear", <<>>),
     MakeQuery(<<"-", "1", "0", "0">>, <<>>, <<>>, <<>>, "", "", <<>>),
     MakeQuery(<<"a", "b", "c">>, <<>>, <<>>, <<>>, "", "", <<>>),
     MakeQuery(<<"0">>, <<"3">>, <<"-", "1">>, <<>>, "crop", "bogus", <<"1", ".", "5">>),
     MakeQuery(<<"2">>, <<"2">>, <<"1", ".", "5">>, <<>>, "fill", "nearest", <<>>)}

\* what a url delivers when the download succeeds
RemoteData(url) == PngData(1, 2)

ServerIdle ==
    /\ req = [r \in Requests |-> NoRequest]
    /\ pc = [r \in Requests |-> "idle"]
    /\ files = {}
    /\ imagePath = [r \in Requests |-> <<"", 0>>]
    /\ imageBuffer = [r \in Requests |-> NoData]
    /\ result = [r \in Requests |-> NoDimensions]
    /\ responses = [r \in Requests |-> <<>>]
    /\ effects = [r \in Requests |-> {}]

CoreIdle ==
    /\ options = MakeOptions(Undef, Undef, Undef, Undef, Undef, Undef, Undef)
    /\ srcWidth = 1
    /\ srcHeight = 1
    /\ call = "none"
    /\ errors = <<>>
    /\ dimensions = NoDimensions

NoBuffer == [width |-> 0, height |-> 0, data |-> 0]
NoImage == [width |-> 0, height |-> 0, bytes |-> <<>>]

ResampleIdle ==
    /\ image = NoImage
    /\ heap = <<>>
    /\ sourceData = NoBuffer
    /\ targetWidth = 0
    /\ targetHeight = 0
    /\ algorithm = ""
    /\ resized = NoBuffer
    /\ writes = {}
    /\ thrown = ""


\* ------------------------------------------------------------------------
\* server.js: the POST /resize handler, one action per resumption
\* ------------------------------------------------------------------------
NoPath == <<"", 0>>
NoHeaders == [width |-> Undef, height |-> Undef, algorithm |-> ""]

MissingImageResponse ==
    [status |-> 400, error |-> "Missing image",
     message |-> "Provide either image file upload or url parameter",
     messages |-> <<>>, headers |-> NoHeaders]

InvalidParametersResponse(errs) ==
    [status |-> 400, error |-> "Invalid parameters", message |-> "",
     messages |-> errs, headers |-> NoHeaders]

ProcessingFailedResponse(msg) ==
    [status |-> 500, error |-> "Processing failed", message |-> msg,
     messages |-> <<>>, headers |-> NoHeaders]

\* res.setHeader(...) three times and res.send(result.buffer)
ImageResponse(res, o) ==
    [status |-> 200, error |-> "", message |-> "", messages |-> <<>>,
     headers |-> [width |-> res.width, height |-> res.height,
                  algorithm |-> IF Truthy(o.algorithm) THEN o.algorithm.s
                                ELSE "lanczos"]]

\* variant that looks for the image only when the options are valid
MissingImageAfterValidation(q) ==
    /\ q.file = NoData /\ q.url = ""
    /\ validateOptions(parseResizeOptions(q.query)) = <<>>

\* !req.file && !req.query.url
MissingImage(q) == q.file = NoData /\ q.url = ""

\* variant that lets a single validation error pass
SeveralValidationErrors(o) == Len(validateOptions(o)) > 1

\* validationErrors.length > 0
HasValidationErrors(o) == Len(validateOptions(o)) > 0

\* the defaults of processImage's destructuring
ProcessOptions(o) ==
    [o EXCEPT !.fit = IF @ = Undef THEN Str("cover") ELSE @,
              !.algorithm = IF @ = Undef THEN Str("lanczos") ELSE @,
              !.quality = IF @ = Undef THEN Rat(85, 100) ELSE @]

\* a registered resampler returns {width: targetWidth, height: targetHeight,
\* data}; an inherited function returns a value without width and height
resizeImage(dims, name) ==
    IF name.s \in Range(AlgorithmNames) THEN dims ELSE NoDimensions

\* saveTemporaryFile / downloadImage: the names differ in their prefix; the
\* time stamp and random suffix of a name are taken to be fresh per request
\* variant in which all requests use one name
TemporaryPathShared(r) == <<"/tmp/resizer/temp-", 0>>

TemporaryPath(r) ==
    IF req[r].file # NoData THEN <<"/tmp/resizer/temp-", r>>
    ELSE <<"/tmp/resizer/remote-", r>>

TemporaryData(r) ==
    IF req[r].file # NoData THEN req[r].file ELSE RemoteData(req[r].url)

\* variant that sends nothing when the response is a failure
RespondUnlessFailed(r, response) ==
    /\ responses' = [responses EXCEPT ![r] =
                         IF response.status = 500 THEN @ ELSE Append(@, response)]
    /\ pc' = [pc EXCEPT ![r] = "done"]

Respond(r, response) ==
    /\ responses' = [responses EXCEPT ![r] = Append(@, response)]
    /\ pc' = [pc EXCEPT ![r] = "done"]

Effect(r, e) == effects' = [effects EXCEPT ![r] = @ \cup {e}]

\* a request arrives; requests are numbered in the order of their arrival
ReceiveFrom(r, requests) ==
    /\ pc[r] = "idle"
    /\ \A earlier \in 1..(r - 1) : pc[earlier] # "idle"
    /\ \E request \in requests : req' = [req EXCEPT ![r] = request]
    /\ pc' = [pc EXCEPT ![r] = "received"]
    /\ UNCHANGED <<files, imagePath, imageBuffer, result, responses, effects>>
    /\ UNCHANGED coreVars
    /\ UNCHANGED resampleVars

\* every source with every query string
ServerRequests ==
    {[file |-> source.file, url |-> source.url, query |-> query] :
        source \in ServerSources, query \in ServerQueries}

Receive(r) == ReceiveFrom(r, ServerRequests)

\* the handler up to its first await
Handle(r) ==
    /\ pc[r] = "received"
    /\ IF MissingImage(req[r])
       THEN Respond(r, MissingImageResponse)
       ELSE \E o \in {parseResizeOptions(req[r].query)} :
               IF HasValidationErrors(o)
               THEN Respond(r, InvalidParametersResponse(validateOptions(o)))
               ELSE /\ pc' = [pc EXCEPT ![r] = IF req[r].file # NoData THEN "mkdir"
                                               ELSE "get"]
                    /\ UNCHANGED responses
    /\ UNCHANGED <<req, files, imagePath, imageBuffer, result, effects>>
    /\ UNCHANGED coreVars
    /\ UNCHANGED resampleVars

\* downloadImage: axios.get resolves
DownloadDone(r) ==
    /\ pc[r] = "get"
    /\ pc' = [pc EXCEPT ![r] = "mkdir"]
    /\ Effect(r, "download")
    /\ UNCHANGED <<req, files, imagePath, imageBuffer, result, responses>>
    /\ UNCHANGED coreVars
    /\ UNCHANGED resampleVars

\* downloadImage: axios.get rejects, the handler's catch answers
DownloadFailed(r) ==
    /\ pc[r] = "get"
    /\ Respond(r, ProcessingFailedResponse("Failed to download image"))
    /\ UNCHANGED <<req, files, imagePath, imageBuffer, result, effects>>
    /\ UNCHANGED coreVars
    /\ UNCHANGED resampleVars

\* fs.mkdir resolves; fs.writeFile is started
MkdirDone(r) ==
    /\ pc[r] = "mkdir"
    /\ pc' = [pc EXCEPT ![r] = "write"]
    /\ Effect(r, "mkdir")
    /\ UNCHANGED <<req, files, imagePath, imageBuffer, result, responses>>
    /\ UNCHANGED coreVars
    /\ UNCHANGED resampleVars

\* fs.writeFile resolves: the temporary file exists, the handler calls
\* processImage, which checks the algorithm and starts fs.readFile
WriteDone(r) ==
    /\ pc[r] = "write"
    /\ files' = {f \in files : f.path # TemporaryPath(r)}
                    \cup {[path |-> TemporaryPath(r), data |-> TemporaryData(r)]}
    /\ imagePath' = [imagePath EXCEPT ![r] = TemporaryPath(r)]
    /\ Effect(r, "write")
    /\ \E o \in {ProcessOptions(parseResizeOptions(req[r].query))} :
          IF ~Truthy(algorithms(o.algorithm))
          THEN Respond(r, ProcessingFailedResponse("Unknown algorithm"))
          ELSE /\ pc' = [pc EXCEPT ![r] = "read"]
               /\ UNCHANGED responses
    /\ UNCHANGED <<req, imageBuffer, result>>
    /\ UNCHANGED coreVars
    /\ UNCHANGED resampleVars

\* fs.readFile resolves (or rejects when the file is gone); png.parse starts
ReadDone(r) ==
    /\ pc[r] = "read"
    /\ IF \E f \in files : f.path = imagePath[r]
       THEN /\ imageBuffer' = [imageBuffer EXCEPT ![r] =
                    (CHOOSE f \in files : f.path = imagePath[r]).data]
            /\ pc' = [pc EXCEPT ![r] = "parse"]
            /\ UNCHANGED responses
       ELSE /\ Respond(r, ProcessingFailedResponse("ENOENT"))
            /\ UNCHANGED imageBuffer
    /\ Effect(r, "read")
    /\ UNCHANGED <<req, files, imagePath, result>>
    /\ UNCHANGED coreVars
    /\ UNCHANGED resampleVars

\* output.data is missing or empty: the resized value has no width or
\* height, or one of them is 0
EmptyData(output) ==
    \/ output.width.t # "number" \/ output.height.t # "number"
    \/ output.width.n = 0 \/ output.height.n = 0

\* the png.parse callback: reject on a decoding error, else plan, resample
\* and call output.pack().  The packer reports an image without data by an
\* 'error' event emitted during that call; nothing listens for it, so the
\* emit throws inside the try block and the catch rejects.  Otherwise the
\* packer starts.
ParseDone(r) ==
    /\ pc[r] = "parse"
    /\ IF imageBuffer[r].kind # "png"
       THEN /\ Respond(r, ProcessingFailedResponse("Failed to parse PNG"))
            /\ UNCHANGED <<result, effects>>
       ELSE \E o \in {ProcessOptions(parseResizeOptions(req[r].query))} :
            \E dims \in {calculateDimensions(imageBuffer[r].width,
                                              imageBuffer[r].height, o)} :
            \E output \in {resizeImage(dims, o.algorithm)} :
               /\ effects' = [effects EXCEPT ![r] = @ \cup {"plan", "resample"}]
               /\ IF EmptyData(output)
                  THEN /\ Respond(r, ProcessingFailedResponse("Unhandled error"))
                       /\ UNCHANGED result
                  ELSE /\ result' = [result EXCEPT ![r] = output]
                       /\ pc' = [pc EXCEPT ![r] = "pack"]
                       /\ UNCHANGED responses
    /\ UNCHANGED <<req, files, imagePath, imageBuffer>>
    /\ UNCHANGED coreVars
    /\ UNCHANGED resampleVars

\* the packer ends, processImage resolves, the handler awaits cleanup
PackDone(r) ==
    /\ pc[r] = "pack"
    /\ pc' = [pc EXCEPT ![r] = "unlink"]
    /\ UNCHANGED <<req, files, imagePath, imageBuffer, result, responses, effects>>
    /\ UNCHANGED coreVars
    /\ UNCHANGED resampleVars

\* fs.unlink settles; the handler sets the headers and sends the image
UnlinkDone(r) ==
    /\ pc[r] = "unlink"
    /\ files' = {f \in files : f.path # imagePath[r]}
    /\ Effect(r, "unlink")
    /\ \E o \in {parseResizeOptions(req[r].query)} :
          Respond(r, ImageResponse(result[r], o))
    /\ UNCHANGED <<req, imagePath, imageBuffer, result>>
    /\ UNCHANGED coreVars
    /\ UNCHANGED resampleVars

Init == CoreIdle /\ ServerIdle /\ ResampleIdle

Next ==
    \E r \in Requests :
        \/ Receive(r)
        \/ Handle(r)
        \/ DownloadDone(r)
        \/ DownloadFailed(r)
        \/ MkdirDone(r)
        \/ WriteDone(r)
        \/ ReadDone(r)
        \/ ParseDone(r)
        \/ PackDone(r)
        \/ UnlinkDone(r)

Spec == Init /\ [][Next]_vars

\* ------------------------------------------------------------------------
\* The handler with failing file operations, under fair scheduling
\* ------------------------------------------------------------------------
\* the requests: one without an image, one whose width is 0, a PNG whose
\* contain fit into a 1 x 1 box has width 0, something that is not a PNG,
\* and a url
WidthTwo == MakeQuery(<<"2">>, <<>>, <<>>, <<>>, "", "bilinear", <<>>)

LiveRequests ==
    {[file |-> NoData, url |-> "", query |-> WidthTwo],
     [file |-> PngData(1, 3), url |-> "",
      query |-> MakeQuery(<<"0">>, <<>>, <<>>, <<>>, "", "", <<>>)],
     [file |-> PngData(1, 3), url |-> "",
      query |-> MakeQuery(<<"1">>, <<"1">>, <<>>, <<>>, "contain", "", <<>>)],
     [file |-> GarbageData, url |-> "", query |-> WidthTwo],
     [file |-> NoData, url |-> "http://host/image.png", query |-> WidthTwo]}

ReceiveLive(r) == ReceiveFrom(r, LiveRequests)

\* the message of a failure of saveTemporaryFile, or of downloadImage,
\* whose catch wraps every failure
SaveFailedMessage(r, code) ==
    IF req[r].file # NoData THEN code ELSE "Failed to download image"

\* fs.mkdir rejects, the handler's catch answers
MkdirFailed(r) ==
    /\ pc[r] = "mkdir"
    /\ Respond(r, ProcessingFailedResponse(SaveFailedMessage(r, "EACCES")))
    /\ UNCHANGED <<req, files, imagePath, imageBuffer, result, effects>>
    /\ UNCHANGED coreVars
    /\ UNCHANGED resampleVars

\* fs.writeFile rejects, the handler's catch answers
WriteFailed(r) ==
    /\ pc[r] = "write"
    /\ Respond(r, ProcessingFailedResponse(SaveFailedMessage(r, "ENOSPC")))
    /\ UNCHANGED <<req, files, imagePath, imageBuffer, result, effects>>
    /\ UNCHANGED coreVars
    /\ UNCHANGED resampleVars

\* the steps the event loop takes for a request once it has arrived: every
\* pending operation settles and its continuation runs
Progress(r) ==
    \/ Handle(r)
    \/ DownloadDone(r)
    \/ DownloadFailed(r)
    \/ MkdirDone(r)
    \/ MkdirFailed(r)
    \/ WriteDone(r)
    \/ WriteFailed(r)
    \/ ReadDone(r)
    \/ ParseDone(r)
    \/ PackDone(r)
    \/ UnlinkDone(r)

NextLive ==
    \E r \in Requests :
        \/ ReceiveLive(r)
        \/ Handle(r)
        \/ DownloadDone(r)
        \/ DownloadFailed(r)
        \/ MkdirDone(r)
        \/ MkdirFailed(r)
        \/ WriteDone(r)
        \/ WriteFailed(r)
        \/ ReadDone(r)
        \/ ParseDone(r)
        \/ PackDone(r)
        \/ UnlinkDone(r)

\* the request has arrived and is not answered: one operation is pending
\* for it, which is the state in which Progress(r) is enabled
Pending(r) == pc[r] \notin {"idle", "done"}

\* weak fairness of the event loop, WF_vars(Progress(r)), with its enabling
\* condition written as the state predicate Pending(r): a request is not
\* left pending forever without a step of its own
EventLoopFair(r) == []<>(~Pending(r)) \/ []<><<Progress(r)>>_vars

SpecLive ==
    /\ Init
    /\ [][NextLive]_vars
    /\ \A r \in Requests : EventLoopFair(r)

\* ------------------------------------------------------------------------
\* The resamplers: nearestNeighbor, bilinear, bicubic, lanczos
\* ------------------------------------------------------------------------
\* A buffer is a sequence of bytes; byte i of the code is element i + 1.
\* Every resampler yields the set of assignments targetData[index] = value
\* its loops make, value being the number on the right-hand side.  Sums and
\* quotients are exact.  Against IEEE doubles, on all images of up to 5
\* pixels and targets of up to 4 x 4: nearestNeighbor and bilinear store the
\* same bytes; bicubic differs where the exact quotient is a tie for
\* Math.round; lanczos, whose kernel is tabulated to 1/256, differs by at
\* most 2 per byte.

\* the value of an element outside the array
Undefined == -1

\* srcData[idx]
SrcByte(bytes, idx) ==
    IF idx >= 0 /\ idx < Len(bytes) THEN bytes[idx + 1] ELSE Undefined

\* conversion of a stored value to a byte: modulo 256, undefined becomes 0
ToUint8(v) == IF v = Undefined THEN 0 ELSE v % 256

\* Math.floor(n / d) and Math.round(n / d) for d > 0
FloorDiv(n, d) == n \div d
RoundDiv2(n, d) == (n \div d) + (IF 2 * (n % d) >= d THEN 1 ELSE 0)

Min2(a, b) == IF a < b THEN a ELSE b
Max2(a, b) == IF a > b THEN a ELSE b

\* variant without the upper and lower limit
ClampOmitted(v) == v

\* Math.max(0, Math.min(255, v))
Clamp(v) == Max2(0, Min2(255, v))

\* f[lo] + ... + f[hi], added in the order of the loop
RECURSIVE SumRange(_, _, _)
SumRange(f, lo, hi) == IF lo > hi THEN 0 ELSE f[lo] + SumRange(f, lo + 1, hi)

\* variant that indexes the target by columns
TargetIdxByColumn(x, y, tw) == (x * tw + y) * 4

\* const targetIdx = (y * targetWidth + x) * 4
TargetIdx(x, y, tw) == (y * tw + x) * 4

\* variant that indexes the source by columns
PixelIdxByColumn(src, px, py) == (px * src.height + py) * 4

\* (py * srcWidth + px) * 4
PixelIdx(src, px, py) == (py * src.width + px) * 4

\* the assignments of the loops over y and x and of the channels 0..3,
\* value[x, y, c] being the number assigned for pixel (x, y), channel c
LoopWrites(tw, th, value) ==
    {[index |-> TargetIdx(x, y, tw) + c, value |-> value[x, y, c]] :
        x \in 0..(tw - 1), y \in 0..(th - 1), c \in 0..3}

\* targetWidth - 1 || 1
RatioDivisor(t) == IF t - 1 # 0 THEN t - 1 ELSE 1

\* variant that rounds to the nearest source index
NearestSourceRounded(i, srcSize, targetSize) == RoundDiv2(i * srcSize, targetSize)

\* Math.floor(x * xRatio) with xRatio = srcWidth / targetWidth
NearestSource(i, srcSize, targetSize) == FloorDiv(i * srcSize, targetSize)

nearestNeighbor(src, tw, th) ==
    LET Value(x, y, c) ==
            LET srcX == NearestSource(x, src.width, tw)
                srcY == NearestSource(y, src.height, th)
            IN SrcByte(src.bytes, PixelIdx(src, srcX, srcY) + c)
    IN LoopWrites(tw, th, [x \in 0..(tw - 1), y \in 0..(th - 1), c \in 0..3 |->
                              Value(x, y, c)])

bilinear(src, tw, th) ==
    LET dx == RatioDivisor(tw)
        dy == RatioDivisor(th)
        Value(x, y, c) ==
            LET sx == x * (src.width - 1)      \* srcX = sx / dx
                sy == y * (src.height - 1)     \* srcY = sy / dy
                x0 == FloorDiv(sx, dx)
                y0 == FloorDiv(sy, dy)
                x1 == Min2(x0 + 1, src.width - 1)
                y1 == Min2(y0 + 1, src.height - 1)
                fx == sx - x0 * dx             \* fx, in units of 1 / dx
                fy == sy - y0 * dy             \* fy, in units of 1 / dy
                v00 == SrcByte(src.bytes, PixelIdx(src, x0, y0) + c)
                v10 == SrcByte(src.bytes, PixelIdx(src, x1, y0) + c)
                v01 == SrcByte(src.bytes, PixelIdx(src, x0, y1) + c)
                v11 == SrcByte(src.bytes, PixelIdx(src, x1, y1) + c)
                v0 == v00 * (dx - fx) + v10 * fx
                v1 == v01 * (dx - fx) + v11 * fx
                v == v0 * (dy - fy) + v1 * fy  \* v, in units of 1 / (dx * dy)
            IN RoundDiv2(v, dx * dy)
    IN LoopWrites(tw, th, [x \in 0..(tw - 1), y \in 0..(th - 1), c \in 0..3 |->
                              Value(x, y, c)])

\* variant: a tent of radius 2, which is not 0 at distance 1
cubicKernelTent(t, d) ==
    IF Abs(t) < 2 * d THEN (2 * d - Abs(t)) * d * d ELSE 0

\* cubicKernel(t / d) * d^3
cubicKernel(t, d) ==
    LET at == Abs(t)
    IN IF at <= d THEN d * d * d - 2 * at * at * d + at * at * at
       ELSE IF at < 2 * d
       THEN -4 * d * d * d + 8 * at * d * d - 5 * at * at * d + at * at * at
       ELSE 0

LANCZOS_SIZE == 3

\* lanczosKernel(j / 6) in 1/256ths for j = 0..17, that is
\* sinc(t) * sinc(t / LANCZOS_SIZE) with sinc(t) = sin(pi t) / (pi t),
\* rounded to the nearest 1/256
LanczosTable ==
    <<256, 243, 207, 156, 97, 43, 0, -27, -37, -35, -24, -11, 0, 6, 8, 6, 3, 1>>
LanczosUnit == LanczosTable[1]
LanczosSteps == Len(LanczosTable) \div LANCZOS_SIZE

\* lanczosKernel(t / d) * LanczosUnit, for d a divisor of LanczosSteps
lanczosKernel(t, d) ==
    LET at == Abs(t)
    IN IF at = 0 THEN LanczosUnit
       ELSE IF at < LANCZOS_SIZE * d
       THEN LanczosTable[(at * LanczosSteps) \div d + 1]
       ELSE 0

\* variant that leaves the weighted sum as it is
NormalizeOmitted(sum, weightSum, unit) == [n |-> sum, d |-> unit]

\* if (weightSum !== 0) { result /= weightSum; }: the quotient as n / d with
\* d > 0, sum and weightSum being in units of 1 / unit
Normalize(sum, weightSum, unit) ==
    IF weightSum # 0
    THEN (IF weightSum > 0 THEN [n |-> sum, d |-> weightSum]
          ELSE [n |-> -sum, d |-> -weightSum])
    ELSE [n |-> sum, d |-> unit]

\* the kernel of bicubic or of lanczos, and the scale of its values
Kernel(kernel, t, d) ==
    IF kernel = "cubic" THEN cubicKernel(t, d) ELSE lanczosKernel(t, d)

KernelUnit(kernel, d) ==
    IF kernel = "cubic" THEN d * d * d ELSE LanczosUnit

\* the loops of bicubic and lanczos: a window lo..hi around (xi, yi), clamped
\* to the image, weighted by the kernel in both directions, normalized,
\* rounded and clamped
Convolve(src, tw, th, lo, hi, kernel) ==
    LET dx == RatioDivisor(tw)
        dy == RatioDivisor(th)
        Value(x, y, c) ==
            LET sx == x * (src.width - 1)      \* srcX = sx / dx
                sy == y * (src.height - 1)     \* srcY = sy / dy
                xi == FloorDiv(sx, dx)
                yi == FloorDiv(sy, dy)
                Px(ox) == Min2(Max2(xi + ox, 0), src.width - 1)
                Py(oy) == Min2(Max2(yi + oy, 0), src.height - 1)
                weight == [oy \in lo..hi, ox \in lo..hi |->
                              Kernel(kernel, sx - Px(ox) * dx, dx)
                                  * Kernel(kernel, sy - Py(oy) * dy, dy)]
                sum == SumRange([oy \in lo..hi |-> SumRange([ox \in lo..hi |->
                              SrcByte(src.bytes, PixelIdx(src, Px(ox), Py(oy)) + c)
                                  * weight[oy, ox]], lo, hi)], lo, hi)
                weightSum == SumRange([oy \in lo..hi |-> SumRange([ox \in lo..hi |->
                              weight[oy, ox]], lo, hi)], lo, hi)
                q == Normalize(sum, weightSum,
                               KernelUnit(kernel, dx) * KernelUnit(kernel, dy))
            IN Clamp(RoundDiv2(q.n, q.d))
    IN LoopWrites(tw, th, [x \in 0..(tw - 1), y \in 0..(th - 1), c \in 0..3 |->
                              Value(x, y, c)])

bicubic(src, tw, th) == Convolve(src, tw, th, -1, 2, "cubic")

lanczos(src, tw, th) ==
    Convolve(src, tw, th, -LANCZOS_SIZE + 1, LANCZOS_SIZE, "lanczos")

\* the assignments of the function registered under a name
Resample(name, src, tw, th) ==
    CASE name = "nearest" -> nearestNeighbor(src, tw, th)
      [] name = "bilinear" -> bilinear(src, tw, th)
      [] name = "bicubic" -> bicubic(src, tw, th)
      [] name = "lanczos" -> lanczos(src, tw, th)

\* variant that hands out the source's buffer instead of a new one
AllocInPlace(h, n) == h

\* Buffer.alloc(n): a new buffer of n zero bytes, the last of the heap
Alloc(h, n) == Append(h, [i \in 1..n |-> 0])

\* targetData[index] = value for each assignment; an index outside the
\* buffer is ignored
Store(buffer, ws) ==
    [i \in 1..Len(buffer) |->
        IF \E w \in ws : w.index = i - 1
        THEN ToUint8((CHOOSE w \in ws : w.index = i - 1).value)
        ELSE buffer[i]]

\* ------------------------------------------------------------------------
\* Direct calls of resizeImage
\* ------------------------------------------------------------------------

\* two colours; red and green take the extreme values 0 and 255, blue and
\* alpha take values in between
Palette == <<(<<0, 255, 100, 255>>), (<<255, 0, 37, 128>>)>>

\* the bytes of an image whose pixel i has colour Palette[paint[i]]
Bytes(paint) ==
    [i \in 1..(4 * Len(paint)) |->
        Palette[paint[((i - 1) \div 4) + 1]][((i - 1) % 4) + 1]]

ImageSizes == {wh \in (1..MaxPixels) \X (1..MaxPixels) : wh[1] * wh[2] <= MaxPixels}

Images ==
    UNION {{[width |-> wh[1], height |-> wh[2], bytes |-> Bytes(paint)] :
                paint \in [1..(wh[1] * wh[2]) -> 1..Len(Palette)]} : wh \in ImageSizes}

ResampleAlgorithmInputs == Range(AlgorithmNames) \cup {"unknown", "toString"}

InitResample ==
    /\ CoreIdle
    /\ ServerIdle
    /\ image \in Images
    /\ heap = <<image.bytes>>
    /\ sourceData = [width |-> image.width, height |-> image.height, data |-> 1]
    /\ targetWidth \in 1..MaxTarget
    /\ targetHeight \in 1..MaxTarget
    /\ algorithm \in ResampleAlgorithmInputs
    /\ resized = NoBuffer
    /\ writes = {}
    /\ thrown = ""

\* resizeImage with an algorithm whose registry lookup is falsy
ResizeImageThrows ==
    /\ call = "none"
    /\ ~Truthy(algorithms(Str(algorithm)))
    /\ thrown' = "Unknown algorithm"
    /\ call' = "resizeImage"
    /\ UNCHANGED <<image, heap, sourceData, targetWidth, targetHeight,
                   algorithm, resized, writes>>
    /\ UNCHANGED <<options, srcWidth, srcHeight, errors, dimensions>>
    /\ UNCHANGED serverVars

\* resizeImage with a registered algorithm: the resampler runs
ResizeImageResamples ==
    /\ call = "none"
    /\ algorithm \in Range(AlgorithmNames)
    /\ LET src == [width |-> sourceData.width, height |-> sourceData.height,
                   bytes |-> heap[sourceData.data]]
           ws == Resample(algorithm, src, targetWidth, targetHeight)
           h == Alloc(heap, targetWidth * targetHeight * 4)
           targetData == Len(h)
       IN /\ writes' = ws
          /\ heap' = [h EXCEPT ![targetData] = Store(@, writes')]
          /\ resized' = [width |-> targetWidth, height |-> targetHeight,
                         data |-> targetData]
    /\ call' = "resizeImage"
    /\ UNCHANGED <<image, sourceData, targetWidth, targetHeight, algorithm, thrown>>
    /\ UNCHANGED <<options, srcWidth, srcHeight, errors, dimensions>>
    /\ UNCHANGED serverVars

\* resizeImage with the name of an inherited property: the lookup yields a
\* function of Object.prototype, which is called in place of a resampler and
\* returns a value without width, height and data; nothing is thrown
ResizeImageCallsInherited ==
    /\ call = "none"
    /\ Truthy(algorithms(Str(algorithm)))
    /\ algorithm \notin Range(AlgorithmNames)
    /\ call' = "resizeImage"
    /\ UNCHANGED resampleVars
    /\ UNCHANGED <<options, srcWidth, srcHeight, errors, dimensions>>
    /\ UNCHANGED serverVars

NextResample ==
    \/ ResizeImageThrows
    \/ ResizeImageResamples
    \/ ResizeImageCallsInherited

SpecResample == InitResample /\ [][NextResample]_vars

\* ------------------------------------------------------------------------
\* Direct calls of validateOptions on arbitrary option records
\* ------------------------------------------------------------------------
\* absent, not-a-number, a string, negative, zero, positive
SizeInputs == {Undef, NaN, Str("abc"), Rat(-1, 1), Rat(0, 1), Rat(3, 2)}
FitInputs == {Undef, Str("cover"), Str("stretch")}
AlgorithmInputs == {Undef, Str(""), Str("nearest"), Str("unknown"), Str("toString")}
QualityInputs == {Undef, NaN, Rat(1, 1), Rat(3, 2)}

ValidateInputs ==
    {MakeOptions(w, h, sc, ar, f, alg, q) :
        w \in SizeInputs, h \in SizeInputs, sc \in SizeInputs, ar \in SizeInputs,
        f \in FitInputs, alg \in AlgorithmInputs, q \in QualityInputs}

InitValidate ==
    /\ options \in ValidateInputs
    /\ srcWidth = 1
    /\ srcHeight = 1
    /\ call = "none"
    /\ errors = <<>>
    /\ dimensions = NoDimensions
    /\ ServerIdle
    /\ ResampleIdle

CallValidateOptions ==
    /\ call = "none"
    /\ errors' = validateOptions(options)
    /\ call' = "validateOptions"
    /\ UNCHANGED <<options, srcWidth, srcHeight, dimensions>>
    /\ UNCHANGED serverVars
    /\ UNCHANGED resampleVars

NextValidate == CallValidateOptions

SpecValidate == InitValidate /\ [][NextValidate]_vars

\* ------------------------------------------------------------------------
\* Direct calls of calculateDimensions
\* ------------------------------------------------------------------------
\* the sizing values parseResizeOptions can hand on: absent, NaN, or a number
PositiveRationals == {Rat(n, d) : n \in 1..MaxNum, d \in 1..MaxDen}
DimensionInputs == {Undef, NaN} \cup {Int2Num(i) : i \in 1..MaxDim}
FactorInputs == {Undef} \cup PositiveRationals
PlanFitInputs == {Undef, Str("cover"), Str("contain"), Str("fill")}

PlanInputs ==
    {MakeOptions(w, h, sc, ar, f, Undef, Undef) :
        w \in DimensionInputs, h \in DimensionInputs,
        sc \in FactorInputs, ar \in FactorInputs, f \in PlanFitInputs}

InitPlan ==
    /\ options \in PlanInputs
    /\ srcWidth \in 1..MaxSrc
    /\ srcHeight \in 1..MaxSrc
    /\ call = "none"
    /\ errors = <<>>
    /\ dimensions = NoDimensions
    /\ ServerIdle
    /\ ResampleIdle

CallCalculateDimensions ==
    /\ call = "none"
    /\ dimensions' = calculateDimensions(srcWidth, srcHeight, options)
    /\ call' = "calculateDimensions"
    /\ UNCHANGED <<options, srcWidth, srcHeight, errors>>
    /\ UNCHANGED serverVars
    /\ UNCHANGED resampleVars

NextPlan == CallCalculateDimensions

SpecPlan == InitPlan /\ [][NextPlan]_vars

\* ------------------------------------------------------------------------
\* Properties of validateOptions (checked under SpecValidate)
\* ------------------------------------------------------------------------
Present(v) == v # Undef
PositiveNumber(v) == v.t = "number" /\ v.n > 0
UnitInterval(v) == v.t = "number" /\ v.n >= 0 /\ v.n <= v.d
SizeFields == <<"width", "height", "scale", "aspectRatio">>

\* the rules of the validator as the specification words them
RuleViolated(o, field) ==
    CASE field \in Range(SizeFields) -> Present(o[field]) /\ ~PositiveNumber(o[field])
      [] field = "fit" -> Present(o.fit) /\ ~(o.fit.t = "string" /\ o.fit.s \in FitModes)
      [] field = "algorithm" ->
            Present(o.algorithm)
            /\ ~(o.algorithm.t = "string" /\ o.algorithm.s \in Range(AlgorithmNames))
      [] field = "quality" -> Present(o.quality) /\ ~UnitInterval(o.quality)

RuleMessage(field) ==
    CASE field \in Range(SizeFields) -> PositiveNumberMessage(field)
      [] field = "fit" -> FitMessage
      [] field = "algorithm" -> AlgorithmMessage
      [] field = "quality" -> QualityMessage

RuleOrder == <<"width", "height", "scale", "aspectRatio", "fit", "algorithm", "quality">>

RECURSIVE ExpectedMessages(_, _)
ExpectedMessages(o, i) ==
    IF i > Len(RuleOrder) THEN <<>>
    ELSE (IF RuleViolated(o, RuleOrder[i]) THEN <<RuleMessage(RuleOrder[i])>> ELSE <<>>)
         \o ExpectedMessages(o, i + 1)

Validated == call = "validateOptions"

\* C2: the returned list holds exactly one message per violated rule, in the
\* order width, height, scale, aspectRatio, fit, algorithm, quality, and is
\* empty exactly when no rule is violated.
C2_OneMessagePerViolatedRule ==
    Validated => errors = ExpectedMessages(options, 1)

\* C3: a width, height, scale or aspectRatio that is present and is not a
\* positive number (zero, negative, a string, NaN) is reported with
\* '<field> must be a positive number'.
C3_NonPositiveSizeReported ==
    Validated =>
        \A i \in 1..Len(SizeFields) :
            (Present(options[SizeFields[i]]) /\ ~PositiveNumber(options[SizeFields[i]]))
                => PositiveNumberMessage(SizeFields[i]) \in Range(errors)

\* C4: an algorithm that is present and is not exactly one of the four names
\* (the empty string and inherited property names included) is reported with
\* the algorithm message.
C4_UnknownAlgorithmReported ==
    (Validated /\ Present(options.algorithm)
               /\ options.algorithm.s \notin Range(AlgorithmNames))
        => (errors # <<>> /\ AlgorithmMessage \in Range(errors))

\* ------------------------------------------------------------------------
\* Properties of calculateDimensions (checked under SpecPlan)
\* ------------------------------------------------------------------------
Planned == call = "calculateDimensions"
Dims(w, h) == [width |-> w, height |-> h]
BothGiven(o) == Present(o.width) /\ Present(o.height)
RoundMul(a, b) == MathRound(Mul(a, b))
RoundDiv(a, b) == MathRound(Div(a, b))
GE(a, b) == a.n * b.d >= b.n * a.d
MinNum(a, b) == IF GE(a, b) THEN b ELSE a

\* C5: with a positive scale and width and height not both given, the result
\* is exactly (round(srcW*scale), round(srcH*scale)), whatever width, height
\* or aspectRatio is also supplied.
C5_ScaleOverridesEverything ==
    (Planned /\ PositiveNumber(options.scale) /\ ~BothGiven(options))
        => dimensions = Dims(RoundMul(Int2Num(srcWidth), options.scale),
                             RoundMul(Int2Num(srcHeight), options.scale))

\* C6: with scale absent and a positive aspectRatio, a width given alone
\* yields (width, round(width/aspectRatio)) and a height given alone yields
\* (round(height*aspectRatio), height), whatever the source and the fit are;
\* with both or neither given, aspectRatio does not influence the result.
C6_AspectRatioDerivesMissingDimension ==
    (Planned /\ ~Present(options.scale) /\ PositiveNumber(options.aspectRatio))
        => /\ (PositiveNumber(options.width) /\ ~Present(options.height))
                => dimensions = Dims(options.width,
                                     RoundDiv(options.width, options.aspectRatio))
           /\ (PositiveNumber(options.height) /\ ~Present(options.width))
                => dimensions = Dims(RoundMul(options.height, options.aspectRatio),
                                     options.height)
           /\ (Present(options.width) <=> Present(options.height))
                => dimensions = calculateDimensions(srcWidth, srcHeight,
                                    [options EXCEPT !.aspectRatio = Undef])

C8_SingleDimensionPreservesSourceAspect ==
    (Planned /\ ~Present(options.scale) /\ ~Present(options.aspectRatio))
        => /\ (PositiveNumber(options.width) /\ ~Present(options.height))
                => dimensions = Dims(options.width,
                                     RoundMul(options.width, Rat(srcHeight, srcWidth)))
           /\ (PositiveNumber(options.height) /\ ~Present(options.width))
                => dimensions = Dims(RoundMul(options.height, Rat(srcWidth, srcHeight)),
                                     options.height)

\* C9: unless both width and height are given and fit is 'cover' or
\* 'contain', the result is the nominal size; {width: W, height: H,
\* fit: 'fill'} without scale is exactly (W, H) for every source.
C9_FitAppliesOnlyToBoxWithCoverOrContain ==
    Planned =>
        /\ ~(BothGiven(options) /\ options.fit \in {Str("cover"), Str("contain")})
                => dimensions = NominalDimensions(srcWidth, srcHeight, options)
        /\ (PositiveNumber(options.width) /\ PositiveNumber(options.height)
                /\ options.fit = Str("fill") /\ ~Present(options.scale))
                => dimensions = Dims(options.width, options.height)

C9_Witness ==
    /\ Planned
    /\ options.width = Int2Num(2) /\ options.height = Int2Num(2)
    /\ options.fit = Str("fill") /\ ~Present(options.scale)
    /\ srcWidth = 3 /\ srcHeight = 1
    /\ dimensions = Dims(Int2Num(2), Int2Num(2))

\* C10: cover with a box of positive integers W x H and no scale returns
\* (w, h) with w >= W, h >= H and w = W or h = H; for a square box of side
\* S the smaller of w and h is S.
C10_CoverCoversTheBox ==
    (Planned /\ PositiveNumber(options.width) /\ PositiveNumber(options.height)
             /\ options.fit = Str("cover") /\ ~Present(options.scale))
        => /\ GE(dimensions.width, options.width)
           /\ GE(dimensions.height, options.height)
           /\ (dimensions.width = options.width \/ dimensions.height = options.height)
           /\ options.width = options.height
                => MinNum(dimensions.width, dimensions.height) = options.width

C10_Witness ==
    /\ Planned
    /\ options.width = Int2Num(2) /\ options.height = Int2Num(2)
    /\ options.fit = Str("cover") /\ ~Present(options.scale)
    /\ srcWidth = 3 /\ srcHeight = 1
    /\ dimensions = Dims(Int2Num(6), Int2Num(2))

\* ------------------------------------------------------------------------
\* Properties of the /resize handler (checked under Spec)
\* ------------------------------------------------------------------------
Handled(r) == pc[r] \notin {"idle", "received"}
ParsedOptions(r) == parseResizeOptions(req[r].query)

\* C1: a request that carries an image and whose parsed options fail
\* validation is answered with status 400 carrying exactly the validator's
\* list, and it writes no temporary file, plans no dimensions and invokes no
\* resampler.
C1_InvalidOptionsAnswered400WithoutWork ==
    \A r \in Requests :
        (Handled(r) /\ ~MissingImage(req[r])
                    /\ validateOptions(ParsedOptions(r)) # <<>>)
            => /\ pc[r] = "done"
               /\ Len(responses[r]) = 1
               /\ responses[r][1].status = 400
               /\ responses[r][1].messages = validateOptions(ParsedOptions(r))
               /\ effects[r] = {}
               /\ imagePath[r] = NoPath
               /\ result[r] = NoDimensions
               /\ \A f \in files : f.path # TemporaryPath(r)

C1_Witness ==
    \E r \in Requests :
        /\ pc[r] = "done"
        /\ req[r].file = PngData(2, 1)
        /\ req[r].query.width = <<"-", "1", "0", "0">>
        /\ responses[r] = <<InvalidParametersResponse(
                                <<"width must be a positive number">>)>>
        /\ effects[r] = {}

\* ------------------------------------------------------------------------
\* Further properties of calculateDimensions (checked under SpecPlan)
\* ------------------------------------------------------------------------
MaxNumOf(a, b) == IF GE(a, b) THEN a ELSE b
BoxRequest(fits) ==
    /\ Planned
    /\ PositiveNumber(options.width) /\ PositiveNumber(options.height)
    /\ options.fit \in fits /\ ~Present(options.scale)

\* C11: contain with a box of positive integers W x H and no scale returns
\* (w, h) with w <= W, h <= H and w = W or h = H; for a square box of side
\* S the larger of w and h is S.
C11_ContainFitsInsideTheBox ==
    BoxRequest({Str("contain")})
        => /\ GE(options.width, dimensions.width)
           /\ GE(options.height, dimensions.height)
           /\ (dimensions.width = options.width \/ dimensions.height = options.height)
           /\ options.width = options.height
                => MaxNumOf(dimensions.width, dimensions.height) = options.width

C11_Witness ==
    /\ BoxRequest({Str("contain")})
    /\ options.width = Int2Num(2) /\ options.height = Int2Num(2)
    /\ srcWidth = 3 /\ srcHeight = 1
    /\ dimensions = Dims(Int2Num(2), Int2Num(1))

\* |w * srcHeight - h * srcWidth|: how far (w, h) is from the source's aspect
AspectDefect(d) == Abs(d.width.n * srcHeight - d.height.n * srcWidth)

\* C12 as stated: for srcW # srcH and a box with fit 'cover' or 'contain' the
\* returned aspect ratio equals the source's, w/h = srcW/srcH.
C12_AspectRatioEqualsSource ==
    (BoxRequest({Str("cover"), Str("contain")}) /\ srcWidth # srcHeight)
        => dimensions.width.n * srcHeight = dimensions.height.n * srcWidth

\* C12 as amended: one returned dimension is the box's and the other is the
\* integer nearest to the aspect-preserving value, so the aspect ratio equals
\* the source's up to that rounding (by at most half a pixel).
C12_AspectRatioEqualsSourceUpToRounding ==
    (BoxRequest({Str("cover"), Str("contain")}) /\ srcWidth # srcHeight)
        => \/ /\ dimensions.height = options.height
              /\ dimensions.width.d = 1
              /\ 2 * AspectDefect(dimensions) <= srcHeight
           \/ /\ dimensions.width = options.width
              /\ dimensions.height.d = 1
              /\ 2 * AspectDefect(dimensions) <= srcWidth

C12_Witness ==
    /\ BoxRequest({Str("contain")})
    /\ options.width = Int2Num(2) /\ options.height = Int2Num(2)
    /\ srcWidth = 3 /\ srcHeight = 1
    /\ dimensions = Dims(Int2Num(2), Int2Num(1))
    /\ AspectDefect(dimensions) = 1

PositiveInteger(v) == v.t = "number" /\ v.d = 1 /\ v.n >= 1

\* C13: for sources >= 1 and every options record that validateOptions
\* accepts, the returned width and height are integers >= 1.
C13_ValidatedOptionsYieldPositiveIntegers ==
    (Planned /\ validateOptions(options) = <<>>)
        => PositiveInteger(dimensions.width) /\ PositiveInteger(dimensions.height)

\* ------------------------------------------------------------------------
\* Properties of the resamplers (checked under SpecResample)
\* ------------------------------------------------------------------------
\* resizeImage has returned from one of the four registered resamplers
Resampled == call = "resizeImage" /\ algorithm \in Range(AlgorithmNames)

\* the bytes of the returned buffer
Output == heap[resized.data]

\* C14: for each of the four algorithms and all source and target sizes >= 1,
\* the returned buffer reports width = targetWidth and height = targetHeight,
\* its data has exactly targetWidth * targetHeight * 4 bytes, and every one of
\* these bytes has been assigned by the algorithm.
C14_OutputHasTargetSizeAndIsFullyWritten ==
    Resampled =>
        /\ resized.width = targetWidth
        /\ resized.height = targetHeight
        /\ Len(Output) = targetWidth * targetHeight * 4
        /\ \A i \in 0..(Len(Output) - 1) : \E w \in writes : w.index = i
        /\ \A w \in writes : w.index \in 0..(Len(Output) - 1)

C14_Witness ==
    /\ Resampled
    /\ algorithm = "lanczos"
    /\ image.width = 1 /\ image.height = 2
    /\ targetWidth = 3 /\ targetHeight = 2
    /\ Len(Output) = 24
    /\ Cardinality({w.index : w \in writes}) = 24

\* all pixels of the source have the same four bytes
UniformSource ==
    \A i \in 1..Len(image.bytes) : image.bytes[i] = image.bytes[((i - 1) % 4) + 1]

\* C15: for every algorithm, every uniform-colour source and every target
\* size >= 1x1, every channel of every output pixel is within 1 of the
\* source colour's channel.
C15_UniformSourceStaysUniform ==
    (Resampled /\ UniformSource) =>
        \A i \in 1..Len(Output) :
            Abs(Output[i] - image.bytes[((i - 1) % 4) + 1]) <= 1

C15_Witness ==
    /\ Resampled
    /\ UniformSource
    /\ algorithm = "bicubic"
    /\ image.width = 2 /\ image.height = 2
    /\ targetWidth = 3 /\ targetHeight = 3
    /\ \A i \in 1..Len(Output) : Output[i] = Palette[2][((i - 1) % 4) + 1]

\* C16: for bilinear, bicubic and lanczos, on every source and every target
\* size, the integer assigned to each output channel lies in 0..255, so no
\* assignment wraps modulo 256.
C16_StoredValuesAreBytes ==
    (Resampled /\ algorithm # "nearest") =>
        \A w \in writes : w.value \in 0..255

\* lanczos on the row 255, 0, 0, 255 (red channel), read half way between
\* the two inner pixels: the negative lobes outweigh the rest and the value
\* is limited to 0
C16_Witness ==
    /\ Resampled
    /\ algorithm = "lanczos"
    /\ image.width = 4 /\ image.height = 1
    /\ image.bytes[1] = 255 /\ image.bytes[5] = 0
    /\ image.bytes[9] = 0 /\ image.bytes[13] = 255
    /\ targetWidth = 3 /\ targetHeight = 1
    /\ [index |-> 4, value |-> 0] \in writes

\* C17: after any of the four algorithms returns, the source's width, height
\* and data bytes are what they were, and the returned data is a buffer other
\* than the source's.
C17_SourceIsNotMutated ==
    Resampled =>
        /\ sourceData.width = image.width
        /\ sourceData.height = image.height
        /\ heap[sourceData.data] = image.bytes
        /\ resized.data # sourceData.data

C17_Witness ==
    /\ Resampled
    /\ algorithm = "bilinear"
    /\ image.width = 2 /\ image.height = 2
    /\ targetWidth = 2 /\ targetHeight = 2
    /\ Len(heap) = 2
    /\ heap[1] = image.bytes
    /\ heap[2] = image.bytes
    /\ resized.data = 2

\* C20: resizeImage invoked with an algorithm name that is not one of the four
\* registered names fails with an 'Unknown algorithm' error.
C20_UnregisteredAlgorithmThrows ==
    (call = "resizeImage" /\ algorithm \notin Range(AlgorithmNames))
        => thrown = "Unknown algorithm"

\* ------------------------------------------------------------------------
\* Properties of the server (checked under Spec), continued
\* ------------------------------------------------------------------------
\* C18: once a request's processing has ended, with success or with failure,
\* the temporary file created for it does not exist any more.
C18_TemporaryFileDeletedWhenRequestEnds ==
    \A r \in Requests :
        pc[r] = "done" => ~(\E f \in files : f.path = imagePath[r])

\* the responses a request can get when it is the only one the server
\* handles: a download may fail or deliver, everything else is determined
AloneResponses(q) ==
    LET o == parseResizeOptions(q.query)
        po == ProcessOptions(o)
        Processed(data) ==
            IF ~Truthy(algorithms(po.algorithm))
            THEN ProcessingFailedResponse("Unknown algorithm")
            ELSE IF data.kind # "png"
            THEN ProcessingFailedResponse("Failed to parse PNG")
            ELSE IF EmptyData(resizeImage(
                        calculateDimensions(data.width, data.height, po),
                        po.algorithm))
            THEN ProcessingFailedResponse("Unhandled error")
            ELSE ImageResponse(
                     resizeImage(calculateDimensions(data.width, data.height, po),
                                 po.algorithm), o)
    IN IF MissingImage(q) THEN {<<MissingImageResponse>>}
       ELSE IF HasValidationErrors(o)
       THEN {<<InvalidParametersResponse(validateOptions(o))>>}
       ELSE IF q.file # NoData THEN {<<Processed(q.file)>>}
       ELSE {<<ProcessingFailedResponse("Failed to download image")>>,
             <<Processed(RemoteData(q.url))>>}

\* C19: in every interleaving of the requests in flight, the response of each
\* request (status, error, dimensions, algorithm) is one it gets when it is
\* processed alone; the decoded image a response is computed from is the
\* request's own.
C19_ConcurrentRequestsAreIndependent ==
    \A r \in Requests :
        pc[r] = "done" =>
            /\ responses[r] \in AloneResponses(req[r])
            /\ imageBuffer[r] \in {NoData, TemporaryData(r)}

\* the second request has been answered with an image while the first, which
\* arrived before it, is still being processed and its file still exists
C19_Witness ==
    /\ pc[1] = "pack"
    /\ pc[2] = "done"
    /\ Len(responses[2]) = 1
    /\ responses[2][1].status = 200
    /\ req[1].file = PngData(2, 1)
    /\ req[2].file = NoData /\ req[2].url # ""
    /\ imageBuffer[2] = RemoteData(req[2].url)
    /\ \E f \in files : f.path = imagePath[1]

\* C21: a request with neither an uploaded image nor a url is answered with
\* status 400 and the error 'Missing image', whatever its other parameters
\* are, and no validation list is reported, nothing is downloaded and no
\* temporary file is created for it.
C21_MissingImageAnswered400First ==
    \A r \in Requests :
        (Handled(r) /\ req[r].file = NoData /\ req[r].url = "")
            => /\ pc[r] = "done"
               /\ responses[r] = <<MissingImageResponse>>
               /\ responses[r][1].status = 400
               /\ responses[r][1].error # ""
               /\ responses[r][1].messages = <<>>
               /\ effects[r] = {}
               /\ imagePath[r] = NoPath
               /\ \A f \in files : f.path # TemporaryPath(r)

\* a request without image whose parameters are invalid
C21_Witness ==
    \E r \in Requests :
        /\ pc[r] = "done"
        /\ req[r].file = NoData /\ req[r].url = ""
        /\ validateOptions(ParsedOptions(r)) # <<>>
        /\ responses[r] = <<MissingImageResponse>>

\* ------------------------------------------------------------------------
\* Further properties of the resamplers (checked under SpecResample)
\* ------------------------------------------------------------------------
\* the four bytes of pixel (x, y) in a buffer of the given width
PixelOf(bytes, width, x, y) ==
    [c \in 0..3 |-> bytes[(y * width + x) * 4 + c + 1]]

SourcePixels ==
    {PixelOf(image.bytes, image.width, x, y) :
        x \in 0..(image.width - 1), y \in 0..(image.height - 1)}

C23_OneByOneTargetIsTopLeftPixel ==
    (call = "resizeImage" /\ algorithm \in {"bilinear", "bicubic", "lanczos"}
                          /\ targetWidth = 1 /\ targetHeight = 1)
        => /\ thrown = ""
           /\ Len(Output) = 4
           /\ PixelOf(Output, 1, 0, 0) = PixelOf(image.bytes, image.width, 0, 0)

C23_Witness ==
    /\ Resampled
    /\ algorithm = "lanczos"
    /\ image.width = 2 /\ image.height = 2
    /\ image.bytes = Bytes(<<2, 1, 1, 1>>)
    /\ targetWidth = 1 /\ targetHeight = 1
    /\ Output = Bytes(<<2>>)

\* C24: for each of the four algorithms and every source, resampling to the
\* source's own dimensions returns data equal to the source data byte for
\* byte.
C24_IdentityResizeReturnsTheSourceBytes ==
    (Resampled /\ targetWidth = image.width /\ targetHeight = image.height)
        => Output = image.bytes

C24_Witness ==
    /\ Resampled
    /\ algorithm = "bicubic"
    /\ image.width = 2 /\ image.height = 2
    /\ image.bytes = Bytes(<<1, 2, 1, 1>>)
    /\ targetWidth = 2 /\ targetHeight = 2
    /\ Output = Bytes(<<1, 2, 1, 1>>)

\* ------------------------------------------------------------------------
\* Properties of the handler under fair scheduling (checked under SpecLive)
\* ------------------------------------------------------------------------
\* every step of saving, reading, planning, resampling and cleaning up has
\* been taken for the request
AllStepsSucceeded(r) ==
    {"mkdir", "write", "read", "plan", "resample", "unlink"} \subseteq effects[r]

\* nothing has been sent before the handler ends; when it has ended, one
\* response has been sent, whose status is 400 for a missing image or invalid
\* options, else 200 with the three headers when every step succeeded, else
\* 500 with a message
OneResponseOfTheRightKind(r) ==
    IF pc[r] # "done" THEN responses[r] = <<>>
    ELSE /\ Len(responses[r]) = 1
         /\ LET response == responses[r][1]
            IN IF (req[r].file = NoData /\ req[r].url = "")
                    \/ validateOptions(ParsedOptions(r)) # <<>>
               THEN response.status = 400 /\ response.error # ""
               ELSE IF AllStepsSucceeded(r)
               THEN /\ response.status = 200
                    /\ response.headers.width.t = "number"
                    /\ response.headers.height.t = "number"
                    /\ response.headers.algorithm \in Range(AlgorithmNames)
               ELSE /\ response.status = 500
                    /\ response.message # ""

=============================================================================
